---- MODULE Spec2Model ----
(***************************************************************************)
(* Model of koding/vagrantutil: the command executor (command.go: run,     *)
(* start, done) and the streaming goroutine of Vagrant.Up (vagrant.go).    *)
(*                                                                         *)
(* One invocation is modelled: the caller picks run, start or Up, the      *)
(* subprocess writes lines to its two pipes and exits, the goroutines of   *)
(* the invocation scan the pipes and send events on the unbuffered         *)
(* channel, and a consumer receives from it (and may stop receiving).      *)
(***************************************************************************)
EXTENDS Integers, Sequences, FiniteSets, TLC

\* ------------------------------------------------------------------ bounds
MaxLines == 3        \* a process writes at most MaxLines lines in all
PipeCap  == 2        \* lines an OS pipe holds before the writer blocks
MaxRows  == 3        \* rows of a record table given to parseData
MaxCalls == 3        \* facade calls made on one session

\* --------------------------------------------------------------- constants
Streams  == {"stdout", "stderr"}
Nil      == "nil"
ErrPipe     == "pipe: too many open files"       \* StdoutPipe/StderrPipe failure
ErrStart    == "exec: vagrant: not found"        \* cmd.Start failure
ErrTooLong  == "bufio.Scanner: token too long"   \* scanner.Err()
ErrClosed   == "read: file already closed"       \* read after cmd.Wait closed the pipe
ExitError   == "exit status 1"                   \* cmd.Wait / CombinedOutput failure
Outputs     == {"", "out"}                       \* captured output of a synchronous run
Absent      == "absent"                          \* os.Stat reports IsNotExist
Contents    == {"", "Vagrant.configure"}         \* the vagrantfile argument of Up
ErrEmpty    == "Vagrantfile content is empty"
ErrWrite    == "open Vagrantfile: permission denied"   \* ioutil.WriteFile failure

VARIABLES
    op,          \* which operation the caller invoked: "none", "run", "start", "up"
    file,        \* the Vagrantfile at v.vagrantfile(): Absent or its content
    onSuccess,   \* cmd.onSuccess # nil
    onFailure,   \* cmd.onFailure # nil
    ret,         \* what the call returned to the caller
    calls,       \* the callback invocations so far, in order
    proc,        \* the subprocess: lines to write per stream, lines written, exit status
    pipe,        \* per stream: the lines in the OS pipe
    pipeClosed,  \* the parent's read ends were closed by cmd.Wait
    buf,         \* per stream: the lines the scanner has read and not yet returned
    rd,          \* per stream: the reader goroutine of start (pc, cur, err), and
                 \* sentAt, the place in received of the error event it sent (0: none)
    wg,          \* the WaitGroup counter of start
    rp,          \* the reaper goroutine of start (pc, err)
    up,          \* the streaming goroutine of Vagrant.Up (pc, src, cur, err, werr)
    reaped,      \* cmd.Wait has returned
    closed,      \* close(out) was executed
    panicked,    \* a goroutine panicked (send on closed channel): the program is dead
    consumer,    \* "none", "recv", "stopped", "sawclose"
    received,    \* the events the consumer received, in order
    sess,        \* what NewVagrant returned: (v, err)
    call,        \* per caller of the session: the facade call in progress
    last,        \* per caller of the session: the result of its last completed call
    ncalls,      \* the facade calls started so far
    wrote,       \* the writes of the Vagrantfile: how many, and whether one replaced a file
    pd           \* parseData / toStatus on their own: the arguments and the result

cmdVars  == <<onSuccess, onFailure, calls>>
procVars == <<proc, pipe, pipeClosed, buf>>
goVars   == <<rd, wg, rp, up>>
chanVars == <<reaped, closed, panicked, consumer, received>>
facVars  == <<sess, call, last, ncalls, wrote>>
sideVars == <<facVars, pd>>
vars     == <<op, file, ret, cmdVars, procVars, goVars, chanVars, sideVars>>

\* ------------------------------------------------------------------ events
\* CommandOutput{Line: ..., Error: nil}: a line is named by its stream and number
LineEvent(s, k) == [Line |-> <<s, k>>, Error |-> Nil]
\* CommandOutput{Error: err}
ErrorEvent(e)   == [Line |-> <<>>, Error |-> e]

\* the line counts a process may write: at most MaxLines lines in all
ProcLines == {n \in [Streams -> 0..MaxLines] : n["stdout"] + n["stderr"] <= MaxLines}

\* exec.Cmd before it is started; output is what CombinedOutput captured
NoProc == [n |-> [s \in Streams |-> 0], written |-> [s \in Streams |-> 0],
           status |-> 0, started |-> FALSE, exited |-> FALSE, output |-> ""]

\* the process started by cmd.Start(): it will write n[s] lines to stream s and exit with st
Started(n, st) == [NoProc EXCEPT !.n = n, !.status = st, !.started = TRUE]

\* ------------------------------------------------------- the session facade
\* the goroutines of the caller that use one session
Callers == {"a", "b"}
\* Status: Unknown, NotCreated, Running, Saved, PowerOff
Unknown    == "Unknown"
NotCreated == "NotCreated"
Running    == "Running"
Saved      == "Saved"
PowerOff   == "PowerOff"
ErrNotExist == "stat Vagrantfile: no such file or directory"   \* os.Stat, IsNotExist
ErrUser     == "user: Current not implemented"                 \* user.Current failure
ErrMkdir    == "mkdir: permission denied"                      \* os.MkdirAll failure
ErrCSV      == "wrong number of fields in line"                \* csv.Reader.ReadAll failure
\* fmt.Errorf("couldn't parse data for vagrant type: '%s'", typeName)
ErrParse(typeName) == "couldn't parse data for vagrant type: '" \o typeName \o "'"
\* fmt.Errorf("Unknown state: %s", state)
ErrState(state)    == "Unknown state: " \o state

NoCall   == [pc |-> "idle", op |-> "none", content |-> "", absent |-> FALSE]
NoResult == [op |-> "none", absent |-> FALSE, spawned |-> FALSE, err |-> Nil,
             out |-> "", state |-> "", status |-> Unknown]
NoParse  == [records |-> <<>>, typeName |-> "", step |-> "idle", data |-> "", err |-> Nil]

\* no session yet, no facade call, nothing parsed
SideIdle ==
    /\ sess = [returned |-> FALSE, v |-> Nil, err |-> Nil]
    /\ call = [c \in Callers |-> NoCall]
    /\ last = [c \in Callers |-> NoResult]
    /\ ncalls = 0
    /\ wrote = [n |-> 0, over |-> FALSE]
    /\ pd = NoParse

\* the command and its goroutines before a call
CommandIdle ==
    /\ ret = [returned |-> FALSE, ch |-> Nil, out |-> "", err |-> Nil]
    /\ calls = <<>>
    /\ proc = NoProc
    /\ pipe = [s \in Streams |-> <<>>]
    /\ pipeClosed = FALSE
    /\ buf = [s \in Streams |-> <<>>]
    /\ rd = [s \in Streams |-> [pc |-> "idle", cur |-> 0, err |-> Nil, sentAt |-> 0]]
    /\ wg = 0
    /\ rp = [pc |-> "idle", err |-> Nil]
    /\ up = [pc |-> "idle", src |-> "stderr", cur |-> 0, err |-> Nil, werr |-> Nil]
    /\ reaped = FALSE
    /\ closed = FALSE
    /\ panicked = FALSE
    /\ consumer = "none"
    /\ received = <<>>

Init ==
    /\ op = "none"
    /\ file = Absent
    /\ onSuccess \in BOOLEAN
    /\ onFailure \in BOOLEAN
    /\ CommandIdle
    /\ SideIdle

\* --------------------------------------------------------------- command.done
\* mutant of done: the success branch lacks its return and falls through to
\* the failure branch
done_fallthrough(err) ==
    LET c1 == IF err = Nil /\ onSuccess
              THEN Append(calls, [cb |-> "onSuccess", err |-> Nil]) ELSE calls
    IN IF onFailure THEN Append(c1, [cb |-> "onFailure", err |-> err]) ELSE c1

\* mutant of done: the failure is returned without invoking onFailure
done_silentFailure(err) ==
    IF err = Nil
    THEN IF onSuccess THEN Append(calls, [cb |-> "onSuccess", err |-> Nil]) ELSE calls
    ELSE calls

\* the callbacks invoked by done(err), appended to calls
done(err) ==
    IF err = Nil
    THEN IF onSuccess THEN Append(calls, [cb |-> "onSuccess", err |-> Nil]) ELSE calls
    ELSE IF onFailure THEN Append(calls, [cb |-> "onFailure", err |-> err]) ELSE calls

\* ---------------------------------------------------------------- command.run
\* fmt.Errorf("%s: %s", err, out)
Errorf(err, out) == err \o ": " \o out

\* mutant of runResult: the captured output is returned next to the error
runResult_partial(out, err) ==
    IF err # Nil
    THEN [out |-> out, err |-> IF Len(out) # 0 THEN Errorf(err, out) ELSE err]
    ELSE [out |-> out, err |-> Nil]

\* the (string, error) pair run returns for CombinedOutput's (out, err)
runResult(out, err) ==
    IF err # Nil
    THEN [out |-> "", err |-> IF Len(out) # 0 THEN Errorf(err, out) ELSE err]
    ELSE [out |-> out, err |-> Nil]

run ==
    /\ op = "none"
    /\ \E out \in Outputs, err \in {Nil, ExitError, ErrStart} :
         LET r == runResult(out, err) IN
         /\ err = ErrStart => out = ""        \* a process that never ran printed nothing
         /\ ret' = [returned |-> TRUE, ch |-> Nil, out |-> r.out, err |-> r.err]
         /\ calls' = done(r.err)
         /\ proc' = [proc EXCEPT !.started = (err # ErrStart), !.exited = (err # ErrStart),
                                 !.status = IF err = ExitError THEN 1 ELSE 0,
                                 !.output = out]
         /\ reaped' = (err # ErrStart)
    /\ op' = "run"
    /\ UNCHANGED <<file, onSuccess, onFailure, pipe, pipeClosed, buf, goVars,
                   closed, panicked, consumer, received>>
    /\ UNCHANGED sideVars

\* -------------------------------------------------------------- command.start
\* the launch part of start: pipes, cmd.Start, then the three go statements
start ==
    /\ op = "none"
    /\ op' = "start"
    /\ \E launch \in {Nil, ErrPipe, ErrStart} :
         IF launch # Nil
         THEN /\ ret' = [returned |-> TRUE, ch |-> Nil, out |-> "", err |-> launch]
              /\ calls' = done(launch)
              /\ UNCHANGED <<procVars, goVars, chanVars>>
         ELSE /\ \E n \in ProcLines, st \in {0, 1} :
                   proc' = Started(n, st)
              /\ rd' = [s \in Streams |-> [rd[s] EXCEPT !.pc = "add"]]
              /\ rp' = [pc |-> "wgwait", err |-> Nil]
              /\ ret' = [returned |-> TRUE, ch |-> "out", out |-> "", err |-> Nil]
              /\ consumer' = "recv"
              /\ UNCHANGED <<calls, pipe, pipeClosed, buf, wg, up,
                             reaped, closed, panicked, received>>
    /\ UNCHANGED <<file, onSuccess, onFailure>>
    /\ UNCHANGED sideVars

\* ------------------------------------------------------------- the subprocess
\* the process writes its next line to stream s; it blocks while the pipe is full
ProcWrite(s) ==
    /\ proc.started /\ ~proc.exited /\ op # "run"
    /\ proc.written[s] < proc.n[s]
    /\ Len(pipe[s]) < PipeCap
    /\ pipe' = [pipe EXCEPT ![s] = Append(@, proc.written[s] + 1)]
    /\ proc' = [proc EXCEPT !.written[s] = @ + 1]
    /\ UNCHANGED <<op, file, ret, cmdVars, pipeClosed, buf, goVars, chanVars>>
    /\ UNCHANGED sideVars

\* the process has written everything and exits, which closes its pipe ends
ProcExit ==
    /\ proc.started /\ ~proc.exited /\ op # "run"
    /\ \A s \in Streams : proc.written[s] = proc.n[s]
    /\ proc' = [proc EXCEPT !.exited = TRUE]
    /\ UNCHANGED <<op, file, ret, cmdVars, pipe, pipeClosed, buf, goVars, chanVars>>
    /\ UNCHANGED sideVars

\* ------------------------------------------- start: the output(r) goroutines
\* wg.Add(1), the first statement of the goroutine
RdAdd(s) ==
    /\ ~panicked /\ rd[s].pc = "add"
    /\ wg' = wg + 1
    /\ rd' = [rd EXCEPT ![s].pc = "scan"]
    /\ UNCHANGED <<op, file, ret, cmdVars, procVars, rp, up, chanVars>>
    /\ UNCHANGED sideVars

\* scanner.Scan() returns a line the scanner already holds
RdScanBuffered(s) ==
    /\ ~panicked /\ rd[s].pc = "scan"
    /\ buf[s] # <<>>
    /\ rd' = [rd EXCEPT ![s].pc = "send", ![s].cur = Head(buf[s])]
    /\ buf' = [buf EXCEPT ![s] = Tail(@)]
    /\ UNCHANGED <<op, file, ret, cmdVars, proc, pipe, pipeClosed, wg, rp, up, chanVars>>
    /\ UNCHANGED sideVars

\* mutant of RdScanRead: of the k lines read the last is returned first
RdScanRead_lastFirst(s) ==
    /\ ~panicked /\ rd[s].pc = "scan"
    /\ buf[s] = <<>> /\ ~pipeClosed /\ pipe[s] # <<>>
    /\ \E k \in 1..Len(pipe[s]) :
         /\ rd' = [rd EXCEPT ![s].pc = "send", ![s].cur = pipe[s][k]]
         /\ buf' = [buf EXCEPT ![s] = SubSeq(pipe[s], 1, k - 1)]
         /\ pipe' = [pipe EXCEPT ![s] = SubSeq(@, k + 1, Len(@))]
    /\ UNCHANGED <<op, file, ret, cmdVars, proc, pipeClosed, wg, rp, up, chanVars>>
    /\ UNCHANGED sideVars

\* scanner.Scan() reads k lines from the pipe and returns the first
RdScanRead(s) ==
    /\ ~panicked /\ rd[s].pc = "scan"
    /\ buf[s] = <<>> /\ ~pipeClosed /\ pipe[s] # <<>>
    /\ \E k \in 1..Len(pipe[s]) :
         /\ rd' = [rd EXCEPT ![s].pc = "send", ![s].cur = Head(pipe[s])]
         /\ buf' = [buf EXCEPT ![s] = SubSeq(pipe[s], 2, k)]
         /\ pipe' = [pipe EXCEPT ![s] = SubSeq(@, k + 1, Len(@))]
    /\ UNCHANGED <<op, file, ret, cmdVars, proc, pipeClosed, wg, rp, up, chanVars>>
    /\ UNCHANGED sideVars

\* scanner.Scan() fails: the line is longer than the scanner's buffer
RdScanTooLong(s) ==
    /\ ~panicked /\ rd[s].pc = "scan"
    /\ buf[s] = <<>> /\ ~pipeClosed /\ pipe[s] # <<>>
    /\ rd' = [rd EXCEPT ![s].pc = "senderr", ![s].err = ErrTooLong]
    /\ pipe' = [pipe EXCEPT ![s] = Tail(@)]
    /\ UNCHANGED <<op, file, ret, cmdVars, proc, pipeClosed, buf, wg, rp, up, chanVars>>
    /\ UNCHANGED sideVars

\* scanner.Scan() fails: cmd.Wait has closed the pipe under the reader
RdScanClosed(s) ==
    /\ ~panicked /\ rd[s].pc = "scan"
    /\ buf[s] = <<>> /\ pipeClosed
    /\ rd' = [rd EXCEPT ![s].pc = "senderr", ![s].err = ErrClosed]
    /\ UNCHANGED <<op, file, ret, cmdVars, procVars, wg, rp, up, chanVars>>
    /\ UNCHANGED sideVars

\* scanner.Scan() reaches end-of-stream; scanner.Err() is nil
RdScanEOF(s) ==
    /\ ~panicked /\ rd[s].pc = "scan"
    /\ buf[s] = <<>> /\ ~pipeClosed /\ pipe[s] = <<>> /\ proc.exited
    /\ rd' = [rd EXCEPT ![s].pc = "wgdone"]
    /\ UNCHANGED <<op, file, ret, cmdVars, procVars, wg, rp, up, chanVars>>
    /\ UNCHANGED sideVars

\* out <- &CommandOutput{Line: scanner.Text()}: a rendezvous with the consumer
RdSend(s) ==
    /\ ~panicked /\ rd[s].pc = "send"
    /\ ~closed /\ consumer = "recv"
    /\ received' = Append(received, LineEvent(s, rd[s].cur))
    /\ rd' = [rd EXCEPT ![s].pc = "scan"]
    /\ UNCHANGED <<op, file, ret, cmdVars, procVars, wg, rp, up,
                   reaped, closed, panicked, consumer>>
    /\ UNCHANGED sideVars

\* mutant of RdSendErr: the error is sent inside the scan loop, which goes on
RdSendErr_continue(s) ==
    /\ ~panicked /\ rd[s].pc = "senderr"
    /\ ~closed /\ consumer = "recv"
    /\ received' = Append(received, ErrorEvent(rd[s].err))
    /\ rd' = [rd EXCEPT ![s].pc = "scan", ![s].sentAt = Len(received) + 1]
    /\ UNCHANGED <<op, file, ret, cmdVars, procVars, wg, rp, up,
                   reaped, closed, panicked, consumer>>
    /\ UNCHANGED sideVars

\* out <- &CommandOutput{Error: err}
RdSendErr(s) ==
    /\ ~panicked /\ rd[s].pc = "senderr"
    /\ ~closed /\ consumer = "recv"
    /\ received' = Append(received, ErrorEvent(rd[s].err))
    /\ rd' = [rd EXCEPT ![s].pc = "wgdone", ![s].sentAt = Len(received) + 1]
    /\ UNCHANGED <<op, file, ret, cmdVars, procVars, wg, rp, up,
                   reaped, closed, panicked, consumer>>
    /\ UNCHANGED sideVars

\* a send on the closed channel panics and the program dies
RdSendPanic(s) ==
    /\ ~panicked /\ rd[s].pc \in {"send", "senderr"}
    /\ closed
    /\ panicked' = TRUE
    /\ UNCHANGED <<op, file, ret, cmdVars, procVars, goVars,
                   reaped, closed, consumer, received>>
    /\ UNCHANGED sideVars

\* wg.Done()
RdDone(s) ==
    /\ ~panicked /\ rd[s].pc = "wgdone"
    /\ wg' = wg - 1
    /\ rd' = [rd EXCEPT ![s].pc = "end"]
    /\ UNCHANGED <<op, file, ret, cmdVars, procVars, rp, up, chanVars>>
    /\ UNCHANGED sideVars

\* ------------------------------------------------ start: the reaper goroutine
\* mutant of RpWgWait: the channel is closed without waiting for the process
RpWgWait_noWait ==
    /\ ~panicked /\ rp.pc = "wgwait"
    /\ wg = 0
    /\ rp' = [rp EXCEPT !.pc = "close"]
    /\ UNCHANGED <<op, file, ret, cmdVars, procVars, rd, wg, up, chanVars>>
    /\ UNCHANGED sideVars

\* wg.Wait() returns when the counter is zero
RpWgWait ==
    /\ ~panicked /\ rp.pc = "wgwait"
    /\ wg = 0
    /\ rp' = [rp EXCEPT !.pc = "wait"]
    /\ UNCHANGED <<op, file, ret, cmdVars, procVars, rd, wg, up, chanVars>>
    /\ UNCHANGED sideVars

\* mutant of afterWait: the error of cmd.Wait is not sent on the channel
afterWait_noSend(err) == "close"

\* the pc after cmd.Wait() returned err
afterWait(err) == IF err # Nil THEN "senderr" ELSE "close"

\* cmd.Wait(): returns once the process has exited, closes the pipes
RpWait ==
    /\ ~panicked /\ rp.pc = "wait"
    /\ proc.exited
    /\ LET err == IF proc.status # 0 THEN ExitError ELSE Nil IN
         rp' = [pc |-> afterWait(err), err |-> err]
    /\ reaped' = TRUE
    /\ pipeClosed' = TRUE
    /\ UNCHANGED <<op, file, ret, cmdVars, proc, pipe, buf, rd, wg, up,
                   closed, panicked, consumer, received>>
    /\ UNCHANGED sideVars

\* out <- &CommandOutput{Error: err}
RpSendErr ==
    /\ ~panicked /\ rp.pc = "senderr"
    /\ ~closed /\ consumer = "recv"
    /\ received' = Append(received, ErrorEvent(rp.err))
    /\ rp' = [rp EXCEPT !.pc = "close"]
    /\ UNCHANGED <<op, file, ret, cmdVars, procVars, rd, wg, up,
                   reaped, closed, panicked, consumer>>
    /\ UNCHANGED sideVars

\* close(out)
RpClose ==
    /\ ~panicked /\ rp.pc = "close"
    /\ closed' = TRUE
    /\ rp' = [rp EXCEPT !.pc = "done"]
    /\ UNCHANGED <<op, file, ret, cmdVars, procVars, rd, wg, up,
                   reaped, panicked, consumer, received>>
    /\ UNCHANGED sideVars

\* cmd.done(err)
RpDone ==
    /\ ~panicked /\ rp.pc = "done"
    /\ calls' = done(rp.err)
    /\ rp' = [rp EXCEPT !.pc = "end"]
    /\ UNCHANGED <<op, file, ret, onSuccess, onFailure, procVars, rd, wg, up, chanVars>>
    /\ UNCHANGED sideVars

\* vagrantfileExists returning nil whatever os.Stat says
vagrantfileExists_always == TRUE

\* -------------------------------------------------------------- Vagrant.Up
\* vagrantfileExists() returns nil
vagrantfileExists == file # Absent

\* Up(vagrantfile): writes the Vagrantfile if absent, starts "vagrant up" and
\* the streaming goroutine
Up ==
    /\ op = "none"
    /\ op' = "up"
    /\ \E content \in Contents, werr \in {Nil, ErrWrite}, launch \in {Nil, ErrPipe, ErrStart} :
         IF content = ""
         THEN /\ ret' = [returned |-> TRUE, ch |-> Nil, out |-> "", err |-> ErrEmpty]
              /\ UNCHANGED <<file, procVars, goVars, chanVars>>
         ELSE IF ~vagrantfileExists /\ werr # Nil
         THEN /\ ret' = [returned |-> TRUE, ch |-> Nil, out |-> "", err |-> werr]
              /\ UNCHANGED <<file, procVars, goVars, chanVars>>
         ELSE /\ file' = IF vagrantfileExists THEN file ELSE content
              /\ IF launch # Nil
                 THEN /\ ret' = [returned |-> TRUE, ch |-> Nil, out |-> "", err |-> launch]
                      /\ UNCHANGED <<procVars, goVars, chanVars>>
                 ELSE /\ \E n \in ProcLines, st \in {0, 1} :
                           proc' = Started(n, st)
                      /\ up' = [up EXCEPT !.pc = "scan"]
                      /\ ret' = [returned |-> TRUE, ch |-> "out", out |-> "", err |-> Nil]
                      /\ consumer' = "recv"
                      /\ UNCHANGED <<pipe, pipeClosed, buf, rd, wg, rp,
                                     reaped, closed, panicked, received>>
    /\ UNCHANGED cmdVars
    /\ UNCHANGED sideVars

\* scanner.Scan() returns a line the scanner already holds
UpScanBuffered ==
    /\ up.pc = "scan"
    /\ buf[up.src] # <<>>
    /\ up' = [up EXCEPT !.pc = "send", !.cur = Head(buf[up.src])]
    /\ buf' = [buf EXCEPT ![up.src] = Tail(@)]
    /\ UNCHANGED <<op, file, ret, cmdVars, proc, pipe, pipeClosed, rd, wg, rp, chanVars>>
    /\ UNCHANGED sideVars

\* scanner.Scan() reads k lines from the current reader of the MultiReader
UpScanRead ==
    /\ up.pc = "scan"
    /\ buf[up.src] = <<>> /\ pipe[up.src] # <<>>
    /\ \E k \in 1..Len(pipe[up.src]) :
         /\ up' = [up EXCEPT !.pc = "send", !.cur = Head(pipe[up.src])]
         /\ buf' = [buf EXCEPT ![up.src] = SubSeq(pipe[up.src], 2, k)]
         /\ pipe' = [pipe EXCEPT ![up.src] = SubSeq(@, k + 1, Len(@))]
    /\ UNCHANGED <<op, file, ret, cmdVars, proc, pipeClosed, rd, wg, rp, chanVars>>
    /\ UNCHANGED sideVars

\* scanner.Scan() fails: the line is longer than the scanner's buffer
UpScanTooLong ==
    /\ up.pc = "scan"
    /\ buf[up.src] = <<>> /\ pipe[up.src] # <<>>
    /\ up' = [up EXCEPT !.pc = "senderr", !.err = ErrTooLong]
    /\ pipe' = [pipe EXCEPT ![up.src] = Tail(@)]
    /\ UNCHANGED <<op, file, ret, cmdVars, proc, pipeClosed, buf, rd, wg, rp, chanVars>>
    /\ UNCHANGED sideVars

\* io.MultiReader(stderrPipe, stdoutPipe): stderr is at end-of-stream, go on with stdout
UpNextReader ==
    /\ up.pc = "scan" /\ up.src = "stderr"
    /\ buf[up.src] = <<>> /\ pipe[up.src] = <<>> /\ proc.exited
    /\ up' = [up EXCEPT !.src = "stdout"]
    /\ UNCHANGED <<op, file, ret, cmdVars, procVars, rd, wg, rp, chanVars>>
    /\ UNCHANGED sideVars

\* scanner.Scan() reaches the end of the last reader; scanner.Err() is nil
UpScanEOF ==
    /\ up.pc = "scan" /\ up.src = "stdout"
    /\ buf[up.src] = <<>> /\ pipe[up.src] = <<>> /\ proc.exited
    /\ up' = [up EXCEPT !.pc = "wait"]
    /\ UNCHANGED <<op, file, ret, cmdVars, procVars, rd, wg, rp, chanVars>>
    /\ UNCHANGED sideVars

\* out <- &CommandOutput{Line: scanner.Text(), Error: nil}
UpSend ==
    /\ up.pc = "send"
    /\ ~closed /\ consumer = "recv"
    /\ received' = Append(received, LineEvent(up.src, up.cur))
    /\ up' = [up EXCEPT !.pc = "scan"]
    /\ UNCHANGED <<op, file, ret, cmdVars, procVars, rd, wg, rp,
                   reaped, closed, panicked, consumer>>
    /\ UNCHANGED sideVars

\* out <- &CommandOutput{Line: "", Error: err}, after the scan loop or after cmd.Wait
UpSendErr ==
    /\ up.pc \in {"senderr", "sendwaiterr"}
    /\ ~closed /\ consumer = "recv"
    /\ received' = Append(received, ErrorEvent(IF up.pc = "senderr" THEN up.err ELSE up.werr))
    /\ up' = [up EXCEPT !.pc = IF up.pc = "senderr" THEN "wait" ELSE "close"]
    /\ UNCHANGED <<op, file, ret, cmdVars, procVars, rd, wg, rp,
                   reaped, closed, panicked, consumer>>
    /\ UNCHANGED sideVars

\* the pc of the Up goroutine after cmd.Wait() returned err
upAfterWait(err) == IF err # Nil THEN "sendwaiterr" ELSE "close"

\* cmd.Wait()
UpWait ==
    /\ up.pc = "wait"
    /\ proc.exited
    /\ LET err == IF proc.status # 0 THEN ExitError ELSE Nil IN
         up' = [up EXCEPT !.pc = upAfterWait(err), !.werr = err]
    /\ reaped' = TRUE
    /\ pipeClosed' = TRUE
    /\ UNCHANGED <<op, file, ret, cmdVars, proc, pipe, buf, rd, wg, rp,
                   closed, panicked, consumer, received>>
    /\ UNCHANGED sideVars

\* close(out)
UpClose ==
    /\ up.pc = "close"
    /\ closed' = TRUE
    /\ up' = [up EXCEPT !.pc = "end"]
    /\ UNCHANGED <<op, file, ret, cmdVars, procVars, rd, wg, rp,
                   reaped, panicked, consumer, received>>
    /\ UNCHANGED sideVars

\* --------------------------------------------------------------- the consumer
\* the consumer stops receiving before the channel is closed
ConsumerStop ==
    /\ ~panicked /\ consumer = "recv" /\ ~closed
    /\ consumer' = "stopped"
    /\ UNCHANGED <<op, file, ret, cmdVars, procVars, goVars, reaped, closed, panicked, received>>
    /\ UNCHANGED sideVars

\* a receive on the closed channel: the range loop ends
ConsumerSeeClose ==
    /\ ~panicked /\ consumer = "recv" /\ closed
    /\ consumer' = "sawclose"
    /\ UNCHANGED <<op, file, ret, cmdVars, procVars, goVars, reaped, closed, panicked, received>>
    /\ UNCHANGED sideVars

Next ==
    \/ run
    \/ start
    \/ \E s \in Streams : ProcWrite(s)
    \/ ProcExit
    \/ \E s \in Streams : RdAdd(s)
    \/ \E s \in Streams : RdScanBuffered(s)
    \/ \E s \in Streams : RdScanRead(s)
    \/ \E s \in Streams : RdScanTooLong(s)
    \/ \E s \in Streams : RdScanClosed(s)
    \/ \E s \in Streams : RdScanEOF(s)
    \/ \E s \in Streams : RdSend(s)
    \/ \E s \in Streams : RdSendErr(s)
    \/ \E s \in Streams : RdSendPanic(s)
    \/ \E s \in Streams : RdDone(s)
    \/ RpWgWait
    \/ RpWait
    \/ RpSendErr
    \/ RpClose
    \/ RpDone
    \/ Up
    \/ UpScanBuffered
    \/ UpScanRead
    \/ UpScanTooLong
    \/ UpNextReader
    \/ UpScanEOF
    \/ UpSend
    \/ UpSendErr
    \/ UpWait
    \/ UpClose
    \/ ConsumerStop
    \/ ConsumerSeeClose

Spec == Init /\ [][Next]_vars

\* Every goroutine that can take a step eventually takes it, and so does the
\* subprocess; the consumer is free to stop receiving (ConsumerStop is not fair).
Fairness ==
    /\ \A s \in Streams : WF_vars(ProcWrite(s))
    /\ WF_vars(ProcExit)
    /\ \A s \in Streams :
         WF_vars(RdAdd(s) \/ RdScanBuffered(s) \/ RdScanRead(s) \/ RdScanTooLong(s)
                 \/ RdScanClosed(s) \/ RdScanEOF(s) \/ RdSend(s) \/ RdSendErr(s)
                 \/ RdSendPanic(s) \/ RdDone(s))
    /\ WF_vars(RpWgWait \/ RpWait \/ RpSendErr \/ RpClose \/ RpDone)
    /\ WF_vars(UpScanBuffered \/ UpScanRead \/ UpScanTooLong \/ UpNextReader \/ UpScanEOF
               \/ UpSend \/ UpSendErr \/ UpWait \/ UpClose)
    /\ WF_vars(ConsumerSeeClose)

FairSpec == Spec /\ Fairness


\* ================================================== parseData and toStatus
\* the field names and the values of the machine-readable output
TypeNames == {"state", "version-installed"}
Values    == {"", "running", "not_created", "saved", "poweroff", "aborted"}
\* rows "timestamp,target,type,data...": with no data, one datum, two data,
\* and a row too short to have a type
Rows ==
    {<<"state">>}
    \cup {<<"1", "vm", ty>> : ty \in TypeNames}
    \cup {<<"1", "vm", ty, d>> : ty \in TypeNames, d \in Values}
    \cup {<<"1", "vm", ty, d, "x">> : ty \in TypeNames, d \in {"", "running"}}
\* the tables of at most n rows
RECURSIVE TablesUpTo(_)
TablesUpTo(n) ==
    IF n = 0 THEN {<<>>}
    ELSE LET T == TablesUpTo(n - 1) IN
         T \cup {Append(tb, r) : tb \in {x \in T : Len(x) = n - 1}, r \in Rows}
Tables == TablesUpTo(MaxRows)

\* mutant of parseDataLoop: the first matching row wins, later ones are skipped
RECURSIVE parseDataLoop_first(_, _, _, _)
parseDataLoop_first(records, typeName, i, data) ==
    IF i > Len(records) THEN data
    ELSE LET record == records[i] IN
         IF Len(record) < 4 THEN parseDataLoop_first(records, typeName, i + 1, data)
         ELSE IF typeName = record[3] /\ data = ""
              THEN parseDataLoop_first(records, typeName, i + 1, record[4])
              ELSE parseDataLoop_first(records, typeName, i + 1, data)

\* the loop of parseData from row i on, data being the value found so far;
\* record[2] and record[3] of the code are record[3] and record[4] here
RECURSIVE parseDataLoop(_, _, _, _)
parseDataLoop(records, typeName, i, data) ==
    IF i > Len(records) THEN data
    ELSE LET record == records[i] IN
         IF Len(record) < 4 THEN parseDataLoop(records, typeName, i + 1, data)
         ELSE IF typeName = record[3]
              THEN parseDataLoop(records, typeName, i + 1, record[4])
              ELSE parseDataLoop(records, typeName, i + 1, data)

\* parseData(records, typeName): (data, err)
parseData(records, typeName) ==
    LET data == parseDataLoop(records, typeName, 1, "") IN
    IF data = "" THEN [data |-> "", err |-> ErrParse(typeName)]
    ELSE [data |-> data, err |-> Nil]

\* parseRecords on the rows of the text: csv.Reader with FieldsPerRecord = 0
\* wants every row to have as many fields as the first
parseRecords(rows) ==
    IF \A i \in DOMAIN rows : Len(rows[i]) = Len(rows[1])
    THEN [records |-> rows, err |-> Nil]
    ELSE [records |-> <<>>, err |-> ErrCSV]

\* mutant of toStatus: the earlier variant, which maps every other string to
\* Unknown without an error (and does not know "poweroff")
toStatus_silent(state) ==
    CASE state = "running"     -> [status |-> Running, err |-> Nil]
      [] state = "not_created" -> [status |-> NotCreated, err |-> Nil]
      [] state = "saved"       -> [status |-> Saved, err |-> Nil]
      [] OTHER                 -> [status |-> Unknown, err |-> Nil]

\* toStatus(state): (Status, error)
toStatus(state) ==
    CASE state = "running"     -> [status |-> Running, err |-> Nil]
      [] state = "not_created" -> [status |-> NotCreated, err |-> Nil]
      [] state = "saved"       -> [status |-> Saved, err |-> Nil]
      [] state = "poweroff"    -> [status |-> PowerOff, err |-> Nil]
      [] OTHER                 -> [status |-> Unknown, err |-> ErrState(state)]

\* ---- parseData on its own: any table, any field name
InitParse ==
    /\ Init /\ ~onSuccess /\ ~onFailure

ParseArgs ==
    /\ pd.step = "idle"
    /\ \E records \in Tables, typeName \in TypeNames :
         pd' = [NoParse EXCEPT !.records = records, !.typeName = typeName, !.step = "args"]
    /\ UNCHANGED <<op, file, ret, cmdVars, procVars, goVars, chanVars, facVars>>

ParseData ==
    /\ pd.step = "args"
    /\ LET r == parseData(pd.records, pd.typeName) IN
         pd' = [pd EXCEPT !.step = "parsed", !.data = r.data, !.err = r.err]
    /\ UNCHANGED <<op, file, ret, cmdVars, procVars, goVars, chanVars, facVars>>

NextParse == ParseArgs \/ ParseData

SpecParse == InitParse /\ [][NextParse]_vars

\* ====================================================== the session facade
Names       == {"", "vagrantTest"}                \* the name argument of NewVagrant
OldFile     == "Vagrant.configure (existing)"     \* a Vagrantfile found at the path
Session     == "&Vagrant{}"                       \* a non-nil *Vagrant
\* the vagrantfile argument of the Up calls of caller c
UpContents(c) == {"", "Vagrant.configure by " \o c}
\* the rows of the --machine-readable output of a facade call
FacadeOutputs ==
    {<<>>}
    \cup {<< <<"1", "vm", "state", d>> >> : d \in Values}
    \cup {<< <<"1", "", "version-installed", "1.7.2">> >>,
          << <<"1", "vm", "state", "running">>, <<"1", "vm", "state", "poweroff">> >>,
          << <<"1", "vm", "metadata">>, <<"1", "vm", "state", "running">> >>}
\* the error of runCommand: cmd.CombinedOutput fails to start or exits non-zero
RunErrors == {Nil, ExitError, ErrStart}
\* the text "vagrant box" prints, as characters
BoxOutputs == {<<>>, <<" ", "b", "o", "x", "\n">>, <<"\n">>}
IsSpace(ch) == ch \in {" ", "\n", "\t", "\r"}

\* strings.TrimSpace
RECURSIVE TrimLeft(_)
TrimLeft(s) == IF s # <<>> /\ IsSpace(Head(s)) THEN TrimLeft(Tail(s)) ELSE s
RECURSIVE TrimRight(_)
TrimRight(s) ==
    IF s # <<>> /\ IsSpace(s[Len(s)]) THEN TrimRight(SubSeq(s, 1, Len(s) - 1)) ELSE s
TrimSpace(s) == TrimRight(TrimLeft(s))

\* NewVagrant(name), given the errors of user.Current and os.MkdirAll: (v, err)
NewVagrantResult(name, uerr, merr) ==
    LET err == uerr IN
    IF err # Nil THEN [v |-> Nil, err |-> err]
    ELSE IF name = "" THEN [v |-> Nil, err |-> err]
    ELSE IF merr # Nil THEN [v |-> Nil, err |-> merr]
    ELSE [v |-> Session, err |-> Nil]

NewVagrant ==
    /\ ~sess.returned
    /\ \E name \in Names, uerr \in {Nil, ErrUser}, merr \in {Nil, ErrMkdir} :
         LET r == NewVagrantResult(name, uerr, merr) IN
         sess' = [returned |-> TRUE, v |-> r.v, err |-> r.err]
    /\ UNCHANGED <<op, file, ret, cmdVars, procVars, goVars, chanVars,
                   call, last, ncalls, wrote, pd>>

\* caller c may start a facade call on the session
CanCall(c) ==
    /\ sess.returned /\ sess.v # Nil
    /\ call[c].pc = "idle"
    /\ ncalls < MaxCalls

\* caller c's call of o returned r
Return(c, o, r) ==
    /\ last' = [last EXCEPT ![c] = [r EXCEPT !.op = o]]
    /\ call' = [call EXCEPT ![c] = NoCall]

\* Version(): (string, error), for the (out, err) of runCommand
VersionResult(rows, rerr) ==
    IF rerr # Nil THEN [NoResult EXCEPT !.err = rerr]
    ELSE LET pr == parseRecords(rows) IN
         IF pr.err # Nil THEN [NoResult EXCEPT !.err = pr.err]
         ELSE LET d == parseData(pr.records, "version-installed") IN
              IF d.err # Nil THEN [NoResult EXCEPT !.err = d.err]
              ELSE [NoResult EXCEPT !.out = d.data]

Version(c) ==
    /\ CanCall(c)
    /\ \E rows \in FacadeOutputs, rerr \in RunErrors :
         Return(c, "Version", [VersionResult(rows, rerr) EXCEPT
                                   !.absent = (file = Absent), !.spawned = (rerr # ErrStart)])
    /\ ncalls' = ncalls + 1
    /\ UNCHANGED <<op, file, ret, cmdVars, procVars, goVars, chanVars, sess, wrote, pd>>

\* Box(subcommand): no check of the Vagrantfile
Box(c) ==
    /\ CanCall(c)
    /\ \E text \in BoxOutputs, rerr \in RunErrors :
         Return(c, "Box", [NoResult EXCEPT
                               !.absent = (file = Absent), !.spawned = (rerr # ErrStart),
                               !.err = rerr,
                               !.out = IF rerr # Nil THEN <<>> ELSE TrimSpace(text)])
    /\ ncalls' = ncalls + 1
    /\ UNCHANGED <<op, file, ret, cmdVars, procVars, goVars, chanVars, sess, wrote, pd>>

\* Status(): (Status, error) after the Vagrantfile was found, for the
\* (out, err) of runCommand
StatusResult(rows, rerr) ==
    IF rerr # Nil THEN [NoResult EXCEPT !.err = rerr]
    ELSE LET pr == parseRecords(rows) IN
         IF pr.err # Nil THEN [NoResult EXCEPT !.err = pr.err]
         ELSE LET d == parseData(pr.records, "state") IN
              IF d.err # Nil THEN [NoResult EXCEPT !.err = d.err]
              ELSE LET st == toStatus(d.data) IN
                   [NoResult EXCEPT !.state = d.data, !.status = st.status, !.err = st.err]

Status(c) ==
    /\ CanCall(c)
    /\ IF ~vagrantfileExists
       THEN Return(c, "Status", [NoResult EXCEPT !.absent = (file = Absent),
                                                 !.err = ErrNotExist])
       ELSE \E rows \in FacadeOutputs, rerr \in RunErrors :
              Return(c, "Status", [StatusResult(rows, rerr) EXCEPT
                                       !.absent = (file = Absent), !.spawned = (rerr # ErrStart)])
    /\ ncalls' = ncalls + 1
    /\ UNCHANGED <<op, file, ret, cmdVars, procVars, goVars, chanVars, sess, wrote, pd>>

\* Destroy(): the launch part
Destroy(c) ==
    /\ CanCall(c)
    /\ IF ~vagrantfileExists
       THEN Return(c, "Destroy", [NoResult EXCEPT !.absent = (file = Absent),
                                                  !.err = ErrNotExist])
       ELSE \E launch \in {Nil, ErrPipe, ErrStart} :
              Return(c, "Destroy", [NoResult EXCEPT !.absent = (file = Absent),
                                                    !.spawned = (launch = Nil),
                                                    !.err = launch])
    /\ ncalls' = ncalls + 1
    /\ UNCHANGED <<op, file, ret, cmdVars, procVars, goVars, chanVars, sess, wrote, pd>>

\* Up(vagrantfile) until the os.Stat of vagrantfileExists
UpStat(c) ==
    /\ CanCall(c)
    /\ \E content \in UpContents(c) :
         IF content = ""
         THEN Return(c, "Up", [NoResult EXCEPT !.absent = (file = Absent), !.err = ErrEmpty])
         ELSE /\ call' = [call EXCEPT ![c] =
                    [pc |-> IF vagrantfileExists THEN "spawn" ELSE "write",
                     op |-> "Up", content |-> content, absent |-> (file = Absent)]]
              /\ UNCHANGED last
    /\ ncalls' = ncalls + 1
    /\ UNCHANGED <<op, file, ret, cmdVars, procVars, goVars, chanVars, sess, wrote, pd>>

\* Up: ioutil.WriteFile(v.vagrantfile(), []byte(vagrantfile), 0644)
UpWrite(c) ==
    /\ call[c].pc = "write"
    /\ \E werr \in {Nil, ErrWrite} :
         IF werr # Nil
         THEN /\ Return(c, "Up", [NoResult EXCEPT !.absent = call[c].absent, !.err = werr])
              /\ UNCHANGED <<file, wrote>>
         ELSE /\ file' = call[c].content
              /\ wrote' = [n |-> wrote.n + 1, over |-> wrote.over \/ file # Absent]
              /\ call' = [call EXCEPT ![c].pc = "spawn"]
              /\ UNCHANGED last
    /\ UNCHANGED <<op, ret, cmdVars, procVars, goVars, chanVars, sess, ncalls, pd>>

\* Up: the pipes and cmd.Start; the streaming that follows is the Up action above
UpSpawn(c) ==
    /\ call[c].pc = "spawn"
    /\ \E launch \in {Nil, ErrPipe, ErrStart} :
         Return(c, "Up", [NoResult EXCEPT !.absent = call[c].absent,
                                          !.spawned = (launch = Nil), !.err = launch])
    /\ UNCHANGED <<op, file, ret, cmdVars, procVars, goVars, chanVars,
                   sess, ncalls, wrote, pd>>

\* a session directory with or without a Vagrantfile, and no call yet
InitFacade ==
    /\ op = "none"
    /\ file \in {Absent, OldFile}
    /\ onSuccess = FALSE /\ onFailure = FALSE
    /\ CommandIdle
    /\ SideIdle

NextFacade ==
    \/ NewVagrant
    \/ \E c \in Callers : Version(c)
    \/ \E c \in Callers : Box(c)
    \/ \E c \in Callers : Status(c)
    \/ \E c \in Callers : Destroy(c)
    \/ \E c \in Callers : UpStat(c)
    \/ \E c \in Callers : UpWrite(c)
    \/ \E c \in Callers : UpSpawn(c)

SpecFacade == InitFacade /\ [][NextFacade]_vars

\* ====================================================================== claims
IsLine(e)  == e.Error = Nil
IsError(e) == e.Error # Nil
\* the indices of received that hold the event e
Where(e) == {i \in DOMAIN received : received[i] = e}
ErrorEvents == {i \in DOMAIN received : IsError(received[i])}
LineEvents  == {i \in DOMAIN received : IsLine(received[i])}
\* every line the process was to write was received exactly once
AllLinesOnce ==
    \A s \in Streams : \A k \in 1..proc.n[s] : Cardinality(Where(LineEvent(s, k))) = 1
\* no reader met a line longer than the scanner's buffer
NoTooLong == \A s \in Streams : rd[s].err # ErrTooLong
Fired(cb) == {i \in DOMAIN calls : calls[i].cb = cb}

\* C1: for one invocation through run or start, each callback has been invoked
\* at most once and the two are never both invoked: at most one callback
\* invocation in all, in every reachable state.
C1_AtMostOneCallback ==
    op \in {"run", "start"} =>
        /\ Cardinality(Fired("onSuccess")) <= 1
        /\ Cardinality(Fired("onFailure")) <= 1
        /\ Len(calls) <= 1

\* C1 witness: a streaming invocation with both callbacks installed has run to
\* the end of the reaper and one callback has fired.
C1_Witness ==
    /\ op = "start" /\ onSuccess /\ onFailure
    /\ rp.pc = "end" /\ Len(calls) = 1

\* C2 (as claimed): in start, once cmd.Wait has returned, a callback eventually
\* fires, whether or not the consumer still receives.
C2_CallbackAfterReap ==
    (op = "start" /\ onSuccess /\ onFailure /\ reaped) ~> (Len(calls) = 1)

\* C2, for a consumer that keeps receiving: once cmd.Wait has returned, a
\* callback eventually fires unless the consumer has stopped.
C2_CallbackAfterReapDraining ==
    (op = "start" /\ onSuccess /\ onFailure /\ reaped)
        ~> (Len(calls) = 1 \/ consumer = "stopped")

\* C3 (as claimed): when the consumer of start has received until the channel
\* was closed, it has received every line of both streams exactly once.
C3_AllLinesDelivered ==
    (op = "start" /\ consumer = "sawclose" /\ NoTooLong) =>
        /\ AllLinesOnce
        /\ Cardinality(LineEvents) = proc.n["stdout"] + proc.n["stderr"]

\* C4: in start, the line events of one stream are received in the order the
\* process wrote them: of two received lines of the same stream, the one
\* received first has the smaller line number.
C4_OrderWithinStream ==
    op = "start" =>
        \A i, j \in LineEvents :
            (i < j /\ received[i].Line[1] = received[j].Line[1])
                => received[i].Line[2] < received[j].Line[2]

\* C4 witness: two lines of one stream were received with a line of the other
\* stream between them.
C4_Witness ==
    /\ op = "start"
    /\ \E i, j, m \in LineEvents :
         /\ i < m /\ m < j
         /\ received[i].Line[1] = received[j].Line[1]
         /\ received[m].Line[1] # received[i].Line[1]

\* C5 (as claimed): when a streaming process exits with non-zero status and
\* the consumer has drained the channel to its closure, it received every
\* line, then exactly one error event, the exit error, as the last event.
C5_LinesThenExitError ==
    (op \in {"start", "up"} /\ proc.status # 0 /\ consumer = "sawclose"
        /\ NoTooLong /\ up.err # ErrTooLong) =>
        /\ AllLinesOnce
        /\ Len(received) = proc.n["stdout"] + proc.n["stderr"] + 1
        /\ received[Len(received)] = ErrorEvent(ExitError)
        /\ ErrorEvents = {Len(received)}

\* C6: whenever the output channel of start or Up is closed, cmd.Wait has
\* already returned.
C6_ClosedOnlyAfterReap ==
    (op \in {"start", "up"} /\ closed) => reaped

\* C6 witness: the consumer ranged over the channel to its end.
C6_Witness ==
    /\ op \in {"start", "up"} /\ closed /\ consumer = "sawclose"
    /\ received # <<>>

\* both readers ran to their end and neither read a pipe that cmd.Wait had closed
ReadersUndisturbed == \A s \in Streams : rd[s].pc = "end" /\ rd[s].err # ErrClosed

\* C7 (as claimed): in start, when the channel is closed and the callback has
\* fired, onFailure fired iff an error event was delivered and onSuccess
\* fired iff no error event was delivered. Stated for the invocations whose
\* readers ran to their end undisturbed by cmd.Wait.
C7_CallbackMirrorsStream ==
    (op = "start" /\ onSuccess /\ onFailure /\ closed /\ Len(calls) = 1
        /\ ReadersUndisturbed) =>
        /\ calls[1].cb = "onFailure" <=> ErrorEvents # {}
        /\ calls[1].cb = "onSuccess" <=> ErrorEvents = {}

\* C7 (amended): in start, when the channel is closed and the callback has
\* fired, onFailure fired iff the exit error of cmd.Wait was delivered on the
\* channel, and onSuccess fired iff it was not; the error events of the
\* readers do not decide the callback.
C7_CallbackMirrorsExit ==
    (op = "start" /\ onSuccess /\ onFailure /\ closed /\ Len(calls) = 1) =>
        /\ calls[1].cb = "onFailure" <=> Where(ErrorEvent(ExitError)) # {}
        /\ calls[1].cb = "onSuccess" <=> Where(ErrorEvent(ExitError)) = {}
        /\ calls[1].cb = "onFailure" => calls[1].err = ExitError

\* C7 witness: onSuccess fired although a reader delivered an error event.
C7_Witness ==
    /\ op = "start" /\ onSuccess /\ onFailure /\ closed /\ Len(calls) = 1
    /\ calls[1].cb = "onSuccess"
    /\ ErrorEvents # {}
    /\ ReadersUndisturbed

\* C8 (as claimed): the events received from start are zero or more lines,
\* then at most one error event: at most one error event is delivered and no
\* line event follows an error event. Stated for the events received while
\* the reaper still waits in wg.Wait, which come from the two readers alone.
C8_LinesThenOneError ==
    (op = "start" /\ rp.pc = "wgwait") =>
        /\ Cardinality(ErrorEvents) <= 1
        /\ \A i \in ErrorEvents : \A j \in LineEvents : j < i

\* C8 (amended): the events received from start hold at most one error event
\* of each goroutine: at most one exit error and one error of each reader,
\* three in all; a line may follow an error event, but no line of a stream
\* follows the error event of that stream's reader.
C8_OneErrorPerGoroutine ==
    op = "start" =>
        /\ Cardinality(Where(ErrorEvent(ExitError))) <= 1
        /\ ErrorEvents \subseteq
             Where(ErrorEvent(ExitError)) \cup {rd[s].sentAt : s \in Streams}
        /\ \A s \in Streams :
             rd[s].sentAt # 0 =>
                 \A j \in LineEvents : received[j].Line[1] = s => j < rd[s].sentAt

\* C8 witness: a reader sent its error event after its lines, a line of the
\* other stream was received after it, and the exit error came as a second
\* error event.
C8_Witness ==
    /\ op = "start"
    /\ \E s \in Streams :
         /\ rd[s].sentAt # 0
         /\ \E j \in LineEvents : received[j].Line[1] = s
         /\ \E j \in LineEvents : j > rd[s].sentAt
    /\ Where(ErrorEvent(ExitError)) # {}
    /\ Cardinality(ErrorEvents) >= 2
    /\ ReadersUndisturbed

\* C9: when the subprocess cannot be started in start, the error is returned
\* with a nil channel, no goroutine is started, no event is ever received and
\* onFailure (when installed) has been invoked exactly once, with that error,
\* and onSuccess never.
C9_LaunchFailure ==
    (op = "start" /\ ret.returned /\ ret.err # Nil) =>
        /\ ret.ch = Nil
        /\ ret.err \in {ErrPipe, ErrStart}
        /\ \A s \in Streams : rd[s].pc = "idle"
        /\ rp.pc = "idle"
        /\ ~proc.started
        /\ received = <<>> /\ ~closed
        /\ calls = IF onFailure THEN <<[cb |-> "onFailure", err |-> ret.err]>> ELSE <<>>

\* C9 witness: start returned a launch error and onFailure was invoked.
C9_Witness ==
    /\ op = "start" /\ ret.returned /\ ret.err = ErrStart
    /\ Len(calls) = 1

\* the error string s embeds the output t: "<error>: <output>"
Embeds(s, t) ==
    Len(t) <= Len(s) /\ \E pre \in {ExitError, ErrStart} : s = pre \o ": " \o t

\* C10: run returns a non-nil error iff the subprocess failed; then it returns
\* the empty string and the error embeds the captured output when there is
\* some; on success it returns the captured output and a nil error. The one
\* callback has fired when run returns: onFailure iff the error is non-nil.
C10_RunResult ==
    (op = "run" /\ ret.returned) =>
        LET failed == ~proc.started \/ proc.status # 0 IN
        /\ ret.err # Nil <=> failed
        /\ failed => ret.out = ""
        /\ (failed /\ proc.output # "") => Embeds(ret.err, proc.output)
        /\ (failed /\ proc.output = "") => ret.err \in {ExitError, ErrStart}
        /\ ~failed => (ret.out = proc.output /\ ret.err = Nil)
        /\ (onSuccess /\ onFailure) =>
             /\ Len(calls) = 1
             /\ calls[1].cb = "onFailure" <=> ret.err # Nil
             /\ calls[1].cb = "onSuccess" <=> ret.err = Nil
             /\ calls[1].err = ret.err

\* C10 witness: a failed run with captured output returned it inside the error.
C10_Witness ==
    /\ op = "run" /\ ret.returned
    /\ proc.status # 0 /\ proc.output # ""
    /\ ret.out = "" /\ ret.err # Nil /\ Len(calls) = 1


\* the rows of the table that have a value for the field name
Matching(records, typeName) ==
    {i \in DOMAIN records : Len(records[i]) >= 4 /\ records[i][3] = typeName}
\* the greatest element of a non-empty set of numbers
Greatest(S) == CHOOSE i \in S : \A j \in S : j <= i
\* the table without its rows of fewer than 4 fields
RECURSIVE WithoutShortRows(_)
WithoutShortRows(records) ==
    IF records = <<>> THEN <<>>
    ELSE IF Len(Head(records)) < 4 THEN WithoutShortRows(Tail(records))
         ELSE <<Head(records)>> \o WithoutShortRows(Tail(records))

\* C11: parseData returns the value (field 3) of the last row that has at least
\* 4 fields and whose field 2 is the name; it fails iff there is no such row or
\* that value is empty; rows of fewer than 4 fields do not change the result.
C11_ParseDataLastMatch ==
    pd.step = "parsed" =>
        LET M == Matching(pd.records, pd.typeName)
            v == IF M = {} THEN "" ELSE pd.records[Greatest(M)][4]
        IN /\ pd.err # Nil <=> (M = {} \/ v = "")
           /\ pd.err = Nil => pd.data = v
           /\ pd.err # Nil => pd.data = ""
           /\ parseData(WithoutShortRows(pd.records), pd.typeName)
                = [data |-> pd.data, err |-> pd.err]

\* C11 witness: two rows match with different values, a row of 3 fields that
\* names the field follows them, and the value of the second match came back.
C11_Witness ==
    /\ pd.step = "parsed" /\ pd.err = Nil
    /\ \E i, j \in Matching(pd.records, pd.typeName) :
         /\ i < j
         /\ pd.records[i][4] # pd.records[j][4] /\ pd.records[i][4] # ""
         /\ pd.data = pd.records[j][4]
         /\ \E k \in DOMAIN pd.records :
              k > j /\ Len(pd.records[k]) = 3 /\ pd.records[k][3] = pd.typeName

\* caller c's last completed call was an o
Did(c, o) == last[c].op = o
KnownStates == {"running", "not_created", "saved", "poweroff"}

\* C12: toStatus maps "running", "not_created", "saved" and "poweroff" to
\* Running, NotCreated, Saved and PowerOff with a nil error and returns a
\* non-nil error with Unknown for every other state string; so a Status call
\* returns a nil error only together with one of the four statuses.
C12_StatusFailsClosed ==
    \A c \in Callers : Did(c, "Status") =>
        LET r == last[c] IN
        /\ r.err = Nil => r.status \in {Running, NotCreated, Saved, PowerOff}
        /\ r.state = "running"     => (r.status = Running    /\ r.err = Nil)
        /\ r.state = "not_created" => (r.status = NotCreated /\ r.err = Nil)
        /\ r.state = "saved"       => (r.status = Saved      /\ r.err = Nil)
        /\ r.state = "poweroff"    => (r.status = PowerOff   /\ r.err = Nil)
        /\ (r.state # "" /\ r.state \notin KnownStates) =>
               (r.status = Unknown /\ r.err = ErrState(r.state))

\* a Status call parsed the state "aborted" and another one "poweroff"
C12_Witness ==
    /\ Did("a", "Status") /\ last["a"].state = "aborted" /\ last["a"].err # Nil
    /\ Did("b", "Status") /\ last["b"].state = "poweroff" /\ last["b"].status = PowerOff

\* C13: Up never overwrites an existing Vagrantfile, also when Up calls
\* overlap: no write of Up replaces a file that exists, and the file is
\* written at most once.
C13_UpNeverOverwrites ==
    /\ ~wrote.over
    /\ wrote.n <= 1

\* C14 as stated: Box, Status, Up and Destroy called without a Vagrantfile
\* fail with the not-found error and spawn no subprocess.
C14_AllRequireVagrantfile ==
    \A c \in Callers :
        (last[c].op \in {"Box", "Status", "Up", "Destroy"} /\ last[c].absent) =>
            (last[c].err = ErrNotExist /\ ~last[c].spawned)

\* C14 amended: Status and Destroy called without a Vagrantfile fail with the
\* not-found error and spawn no subprocess; Box does not look at the file and
\* never fails with the not-found error, and Up writes the file instead of
\* failing and then launches the subprocess.
C14_StatusDestroyRequireVagrantfile ==
    \A c \in Callers :
        LET r == last[c] IN
        /\ (r.op \in {"Status", "Destroy"} /\ r.absent) =>
               (r.err = ErrNotExist /\ ~r.spawned)
        /\ (r.op \in {"Status", "Destroy"} /\ r.err = ErrNotExist) => r.absent
        /\ r.op \in {"Box", "Up", "Version"} => r.err # ErrNotExist
        /\ (r.op \in {"Box", "Version"} /\ r.err \in {Nil, ExitError}) => r.spawned
        /\ (r.op = "Up" /\ r.absent /\ r.err = Nil) => (r.spawned /\ file # Absent)

\* without a Vagrantfile, Destroy failed with not-found and Box ran its subprocess
C14_Witness ==
    /\ file = Absent
    /\ Did("a", "Destroy") /\ last["a"].absent /\ last["a"].err = ErrNotExist
    /\ Did("b", "Box") /\ last["b"].absent /\ last["b"].spawned /\ last["b"].err = Nil

\* C19: NewVagrant returns a session with a nil error or no session with a
\* non-nil error, never no session and a nil error.
C19_SessionOrError ==
    sess.returned => ((sess.v = Nil) <=> (sess.err # Nil))

\* C15 (as claimed): in start, the reaper is past wg.Wait (it calls or has
\* called cmd.Wait) only when both reader goroutines have called wg.Done and
\* finished.
C15_ReaperAfterReaders ==
    (op = "start" /\ rp.pc \notin {"idle", "wgwait"}) =>
        \A s \in Streams : rd[s].pc = "end"

\* C16 (as claimed): in start, no goroutine sends or is blocked sending on
\* the channel once it is closed, and the send on a closed channel never
\* panics.
C16_NoSendAfterClose ==
    op = "start" =>
        /\ ~panicked
        /\ closed => \A s \in Streams : rd[s].pc \notin {"send", "senderr"}

\* C17 (as claimed): in start, once the process has written its output and
\* exited, and while the consumer keeps receiving, both readers finish, the
\* process is reaped, the channel is closed and the callback fires.
C17_StartTerminates ==
    (op = "start" /\ onSuccess /\ onFailure /\ rp.pc # "idle" /\ proc.exited)
        ~> \/ consumer = "stopped"
           \/ /\ \A s \in Streams : rd[s].pc = "end"
              /\ reaped /\ closed /\ rp.pc = "end"
              /\ Len(calls) = 1

\* C18 (as claimed): in Up, with a consumer that keeps receiving and lines
\* that fit the scanner, the stream does not deadlock: the channel of a
\* launched "vagrant up" is eventually closed, whatever the process writes to
\* stdout before it closes stderr.
C18_UpStreamsIndependent ==
    (op = "up" /\ proc.started)
        ~> (closed \/ consumer = "stopped" \/ up.err = ErrTooLong)

====
